---- MODULE Spec2Model ----
(***************************************************************************)
(* A model of the RabbitStressTest session of                              *)
(* src/Topic_Type_Exchanges/stress-test.js (lines 43-217), specification   *)
(* Spec, and of the RoundRobinRabbit session of the same file (lines       *)
(* 434-570), specification SpecRR.                                         *)
(*                                                                         *)
(* One session object is modelled together with the broker objects it      *)
(* talks to (connections and channels of amqplib) and the asynchronous     *)
(* continuations it has suspended at an await.  JavaScript runs every      *)
(* synchronous stretch of code to completion, so while the publish loop    *)
(* of runTest executes (runPc = "loop"), no other call and no other        *)
(* continuation can run; the loop is still shown one publish per step so   *)
(* that its intermediate states can be examined.                           *)
(***************************************************************************)
EXTENDS Integers, Sequences, FiniteSets, TLC

(***************************************************************************)
(* Bounds of the model.                                                    *)
(***************************************************************************)
\* API calls (prepTests, runTest, updateRabbitStressTest, updateTarget) made
\* on the session after construction.
MaxCalls == 3
\* Full passes an 'extended-duration' run makes before the clock has run out.
MaxPasses == 2

(***************************************************************************)
(* JavaScript values that reach `target`.                                  *)
(***************************************************************************)
Num(n) == [t |-> "number", n |-> n, s |-> ""]
Str(s) == [t |-> "string", n |-> 0, s |-> s]

\* ToBoolean: 0 and "" and undefined are falsy.
Truthy(v) ==
  CASE v.t = "number" -> v.n # 0
    [] v.t = "string" -> v.s # ""
    [] OTHER -> FALSE

\* typeof v === 'number'
IsNumber(v) == v.t = "number"

\* counter <= v for a numeric counter: a non-numeric string or undefined
\* converts to NaN, and every comparison with NaN is false.
LessEq(counter, v) == v.t = "number" /\ counter <= v.n

(***************************************************************************)
(* Inputs the callers supply.                                              *)
(***************************************************************************)
ExchangeX == [name |-> "X", type |-> "topic"]
ExchangeY == [name |-> "Y", type |-> "direct"]
\* arrays of exchange records
ExchangeInputs == {<<ExchangeX>>, <<ExchangeX, ExchangeY>>}

BindingK1 == [source |-> "X", routing_key |-> "k1"]
BindingK2 == [source |-> "Y", routing_key |-> "k2"]
\* arrays of binding records
BindingInputs == {<<>>, <<BindingK1>>, <<BindingK1, BindingK2>>}

\* the values handed to the constructor and to updateTarget as `target`;
\* message objects are strings naming their content ("m1", "Stress Test")
CtorTargets == {Num(1), Num(2)}
TargetInputs == {Num(-5), Str("abc"), Num(0), Num(5), Num(42)}

TestTypes == {"round-robin", "random", "extended-duration", "single-binding", "other"}

\* "no value" for an optional argument or an unset field
None == "undefined"

VARIABLES
  rabbitAddress,      \* this.rabbitAddress
  exchanges,          \* this.exchanges: exchange name -> exchange record
  bindings,           \* this.bindings: array of binding records
  message,            \* this.message
  target,             \* this.target (a JavaScript value)
  readyToTest,        \* this.readyToTest
  testMessages,       \* this.testMessages: a reference into `arrays`
  arrays,             \* the array objects testMessages has referred to
  totalMessagesSent,  \* this.totalMessagesSent
  snapShots,          \* this.snapShots
  randomNumber,       \* this.randomNumber (-1: not set / deleted)
  connection,         \* this.connection: index into conns, 0: undefined
  channel,            \* this.channel: index into chans, 0: undefined
  conns,              \* broker connections: sequence of states
  connAddr,           \* the address each broker connection was made to
  chans,              \* broker channels: sequence of [conn, state]
  tasks,              \* continuations suspended at an await
  runPc,              \* "idle", or "loop" inside runTest's synchronous part
  runType,            \* the `type` argument of the running runTest
  idx,                \* entries of the current pass already published
  passes,             \* passes an 'extended-duration' run has made
  runResult,          \* outcome of the latest runTest call
  lastPub,            \* <<e>>: the entry handed to channel.publish last
  runSent,            \* publishes of the latest run that returned without throwing
  calls               \* API calls made so far

config == <<rabbitAddress, exchanges, bindings, message>>
session == <<target, readyToTest, testMessages, arrays, totalMessagesSent, snapShots, randomNumber, connection, channel>>
broker == <<conns, chans, connAddr>>
running == <<runPc, runType, idx, passes, runResult, lastPub, runSent>>
vars == <<config, session, broker, tasks, running, calls>>

(***************************************************************************)
(* constructor (lines 44-57)                                               *)
(***************************************************************************)
\* exchanges.forEach((exc) => { this.exchanges[exc.name] = exc; })
ExchangeMap(excs) ==
  [n \in {excs[i].name : i \in DOMAIN excs} |->
     excs[CHOOSE i \in DOMAIN excs :
            excs[i].name = n /\ \A j \in DOMAIN excs : excs[j].name = n => j <= i]]

DefaultMessage == "Stress Test"
DefaultTarget == 1000

Constructor(addr, excs, bs, msg, tgt) ==
  /\ rabbitAddress = addr
  /\ exchanges = ExchangeMap(excs)
  /\ bindings = bs
  /\ readyToTest = FALSE
  /\ arrays = << <<>> >>
  /\ testMessages = 1
  /\ totalMessagesSent = 0
  /\ snapShots = <<>>
  /\ message = (IF msg # None THEN msg ELSE DefaultMessage)
  /\ target = (IF Truthy(tgt) THEN tgt ELSE Num(DefaultTarget))

Init ==
  /\ \E excs \in ExchangeInputs, bs \in BindingInputs, tgt \in CtorTargets :
       Constructor("amqp://localhost", excs, bs, None, tgt)
  /\ randomNumber = -1
  /\ connection = 0
  /\ channel = 0
  /\ conns = <<>>
  /\ connAddr = <<>>
  /\ chans = <<>>
  /\ tasks = <<>>
  /\ runPc = "idle"
  /\ runType = None
  /\ idx = 0
  /\ passes = 0
  /\ runResult = "none"
  /\ lastPub = <<>>
  /\ runSent = 0
  /\ calls = 0

\* calls that could be made in the middle of the publish loop
CanCall_reentrant == calls < MaxCalls

\* A caller can make a call only between two synchronous stretches of code.
CanCall == runPc = "idle" /\ calls < MaxCalls

(***************************************************************************)
(* updateTarget (lines 214-216)                                            *)
(***************************************************************************)
AcceptsTarget(v) == Truthy(v) /\ IsNumber(v)

updateTarget(v) ==
  /\ CanCall
  /\ calls' = calls + 1
  /\ target' = (IF AcceptsTarget(v) THEN v ELSE target)
  /\ UNCHANGED <<config, readyToTest, testMessages, arrays, totalMessagesSent, snapShots, randomNumber, connection, channel, broker, tasks, running>>

(***************************************************************************)
(* updateRabbitStressTest (lines 197-210).  An omitted or falsy argument   *)
(* is [given |-> FALSE]; an array argument, even an empty one, is truthy.  *)
(***************************************************************************)
Omitted == [given |-> FALSE]
Given(v) == [given |-> TRUE, v |-> v]

\* the argument lists updateRabbitStressTest is called with
UpdateInputs ==
  { <<Omitted, Omitted, Omitted, Omitted>>,
    <<Given("amqp://other"), Omitted, Omitted, Omitted>>,
    <<Omitted, Given(<<ExchangeX>>), Omitted, Omitted>>,
    <<Omitted, Omitted, Given(<<BindingK1, BindingK2>>), Omitted>>,
    <<Omitted, Omitted, Omitted, Given("m1")>>,
    <<Given("amqp://other"), Given(<<ExchangeX, ExchangeY>>), Given(<<>>), Given("m1")>> }

\* Some snapshot holds the array object a.  An array no snapshot holds is
\* unreachable once the session drops it, so its slot is reused for the new
\* empty array and `arrays` holds no garbage.
Referenced(a) == \E i \in DOMAIN snapShots : snapShots[i].testMessages = a

\* this.testMessages = []
FreshArray ==
  IF Referenced(testMessages)
    THEN /\ arrays' = Append(arrays, <<>>)
         /\ testMessages' = Len(arrays) + 1
    ELSE /\ arrays' = [arrays EXCEPT ![testMessages] = <<>>]
         /\ testMessages' = testMessages

\* an update that assigns every field from its argument, given or not
updateRabbitStressTest_total(addr, excs, bs, msg) ==
  /\ CanCall
  /\ calls' = calls + 1
  /\ rabbitAddress' = (IF addr.given THEN addr.v ELSE None)
  /\ exchanges' = (IF excs.given THEN ExchangeMap(excs.v) ELSE ExchangeMap(<<>>))
  /\ bindings' = (IF bs.given THEN bs.v ELSE <<>>)
  /\ readyToTest' = FALSE
  /\ FreshArray
  /\ totalMessagesSent' = 0
  /\ message' = (IF msg.given THEN msg.v ELSE None)
  /\ UNCHANGED <<target, snapShots, randomNumber, connection, channel, broker, tasks, running>>

updateRabbitStressTest(addr, excs, bs, msg) ==
  /\ CanCall
  /\ calls' = calls + 1
  /\ rabbitAddress' = (IF addr.given THEN addr.v ELSE rabbitAddress)
  /\ exchanges' = (IF excs.given THEN ExchangeMap(excs.v) ELSE exchanges)
  /\ bindings' = (IF bs.given THEN bs.v ELSE bindings)
  /\ readyToTest' = FALSE
  /\ FreshArray
  /\ totalMessagesSent' = 0
  /\ message' = (IF msg.given THEN msg.v ELSE message)
  /\ UNCHANGED <<target, snapShots, randomNumber, connection, channel, broker, tasks, running>>

(***************************************************************************)
(* Suspended continuations.  A task is the rest of an async call that      *)
(* waits for the broker:                                                   *)
(*   k    "prep" (prepTests), "run" (runTest), "close" (closeConnection)   *)
(*   pc   "connect" (amqp.connect), "channel" (createChannel or            *)
(*        channel.close), "connection" (connection.close)                  *)
(*   c    the connection or channel the pending broker call is about       *)
(*   type runTest's argument, for k = "run"                                *)
(*   addr the address amqp.connect was called with (line 63 reads          *)
(*        this.rabbitAddress when the call is made), for pc = "connect"    *)
(***************************************************************************)
Task(k, pc, c, type) ==
  [k |-> k, pc |-> pc, c |-> c, type |-> type,
   addr |-> (IF pc = "connect" THEN rabbitAddress ELSE None)]

RemoveAt(s, i) == SubSeq(s, 1, i - 1) \o SubSeq(s, i + 1, Len(s))

(***************************************************************************)
(* prepTests (lines 105-117) and connectToRabbitMQ (lines 61-69)           *)
(***************************************************************************)
\* the call: connectToRabbitMQ runs up to `await amqp.connect(...)`
prepTests ==
  /\ CanCall
  /\ calls' = calls + 1
  /\ tasks' = Append(tasks, Task("prep", "connect", 0, None))
  /\ UNCHANGED <<config, session, broker, running>>

\* one element of this.testMessages
Entry(b) ==
  [exchangeName |-> b.source,
   exchangeType |-> exchanges[b.source].type,
   rabbitAddress |-> rabbitAddress,
   key |-> b.routing_key,
   message |-> message]

\* this.exchanges[binding.source] is an exchange record
Resolves(b) == b.source \in DOMAIN exchanges

\* the bindings forEach reaches before `.type` of an unknown exchange throws
Reached == {n \in 0..Len(bindings) : \A i \in 1..n : Resolves(bindings[i])}
NumCompiled == CHOOSE n \in Reached : \A m \in Reached : m <= n

\* a forEach that visits the bindings last to first
Compiled_reversed == [i \in 1..NumCompiled |-> Entry(bindings[NumCompiled + 1 - i])]

\* what the forEach of lines 107-115 pushes onto this.testMessages
Compiled == [i \in 1..NumCompiled |-> Entry(bindings[i])]

Pushed(plan, entries) == plan \o entries

\* lines 107-116, run when connectToRabbitMQ has resolved
Compile ==
  /\ arrays' = [arrays EXCEPT ![testMessages] = Pushed(@, Compiled)]
  /\ readyToTest' = (IF NumCompiled = Len(bindings) THEN TRUE ELSE readyToTest)

(***************************************************************************)
(* runTest (lines 121-173), takeSnapShot (177-193), publishMessage (73-85) *)
(***************************************************************************)
Plan == arrays[testMessages]

\* the readiness check of line 122 left out
NotReady_unchecked == FALSE

NotReady == readyToTest = FALSE

\* !this.connection || !this.channel
NeedsConnect == connection = 0 \/ channel = 0

\* Math.floor(Math.random() * this.testMessages.length)
RandomIndexes == IF Len(Plan) = 0 THEN {0} ELSE 0..(Len(Plan) - 1)

CountBounded == {"round-robin", "random", "single-binding"}
InOrder == {"round-robin", "extended-duration"}

\* this.start = new Date(Date.now()) and the entry into the switch
StartRun(type) ==
  /\ runPc' = "loop"
  /\ runType' = type
  /\ idx' = 0
  /\ passes' = 0
  /\ runResult' = "running"
  /\ runSent' = 0
  /\ IF type = "single-binding"
       THEN \E r \in RandomIndexes : randomNumber' = r
       ELSE randomNumber' = randomNumber

runTest(type) ==
  /\ CanCall
  /\ calls' = calls + 1
  /\ IF NotReady
       THEN /\ runResult' = "noop"
            /\ UNCHANGED <<config, session, broker, tasks, runPc, runType, idx, passes, lastPub, runSent>>
       ELSE IF NeedsConnect
         THEN /\ tasks' = Append(tasks, Task("run", "connect", 0, type))
              /\ runResult' = "pending"
              /\ UNCHANGED <<config, session, broker, runPc, runType, idx, passes, lastPub, runSent>>
         ELSE /\ StartRun(type)
              /\ UNCHANGED <<config, target, readyToTest, testMessages, arrays, totalMessagesSent, snapShots, connection, channel, broker, tasks, lastPub>>

\* amqp.connect settles
ConnectSettled(i, ok) ==
  /\ runPc = "idle"
  /\ i \in DOMAIN tasks
  /\ tasks[i].pc = "connect"
  /\ IF ok
       THEN /\ conns' = Append(conns, "open")
            /\ connAddr' = Append(connAddr, tasks[i].addr)
            /\ connection' = Len(conns) + 1
            /\ tasks' = [tasks EXCEPT ![i] = Task(@.k, "channel", Len(conns) + 1, @.type)]
            /\ runResult' = runResult
       ELSE /\ tasks' = RemoveAt(tasks, i)
            /\ runResult' = (IF tasks[i].k = "run" THEN "rejected" ELSE runResult)
            /\ UNCHANGED <<conns, connAddr, connection>>
  /\ UNCHANGED <<config, target, readyToTest, testMessages, arrays, totalMessagesSent, snapShots, randomNumber, channel, chans, runPc, runType, idx, passes, lastPub, runSent, calls>>

\* connection.createChannel settles; the caller of connectToRabbitMQ resumes
ChannelSettled(i, ok) ==
  /\ runPc = "idle"
  /\ i \in DOMAIN tasks
  /\ tasks[i].pc = "channel"
  /\ tasks[i].k \in {"prep", "run"}
  /\ ok => conns[tasks[i].c] = "open"
  /\ tasks' = RemoveAt(tasks, i)
  /\ IF ok
       THEN /\ chans' = Append(chans, [conn |-> tasks[i].c, state |-> "open"])
            /\ channel' = Len(chans) + 1
            /\ IF tasks[i].k = "prep"
                 THEN /\ Compile
                      /\ UNCHANGED <<randomNumber, running>>
                 ELSE /\ StartRun(tasks[i].type)
                      /\ UNCHANGED <<readyToTest, arrays, lastPub>>
       ELSE /\ runResult' = (IF tasks[i].k = "run" THEN "rejected" ELSE runResult)
            /\ UNCHANGED <<chans, channel, readyToTest, arrays, randomNumber, runPc, runType, idx, passes, lastPub, runSent>>
  /\ UNCHANGED <<config, target, testMessages, totalMessagesSent, snapShots, connection, conns, connAddr, calls>>

\* channel.publish(...) goes through: the channel and its connection are open
Usable(ch) == chans[ch].state = "open" /\ conns[chans[ch].conn] = "open"

\* a publishMessage whose catch logs the error and does not rethrow it
publishMessage_swallowing(sent) == IF sent THEN "counted" ELSE "swallowed"

\* publishMessage (lines 73-85): what the caller sees of one publish
\* attempt, `sent` telling whether channel.publish returned
publishMessage(sent) == IF sent THEN "counted" ELSE "thrown"

\* the condition checked before the next iteration of the strategy's loop;
\* for 'extended-duration', whether the clock still shows less than
\* testDuration is the environment's choice `inTime`
LoopCond(inTime) ==
  CASE runType \in CountBounded -> LessEq(totalMessagesSent, target)
    [] runType = "extended-duration" -> inTime /\ passes < MaxPasses
    [] OTHER -> FALSE

\* the run is at a loop condition (not in the middle of a for...of pass)
AtCheck == idx = 0

\* a for...of that walks the plan from its last entry to its first
NextIndex_reversed(r) ==
  CASE runType \in InOrder -> Len(Plan) - 1 - idx
    [] runType = "random" -> r
    [] OTHER -> randomNumber

\* a 'single-binding' loop that uses the first entry whatever was drawn
NextIndex_first(r) ==
  CASE runType \in InOrder -> idx
    [] runType = "random" -> r
    [] OTHER -> 0

\* the index into the plan the next publish uses, drawn as r for 'random'
NextIndex(r) ==
  CASE runType \in InOrder -> idx
    [] runType = "random" -> r
    [] OTHER -> randomNumber

\* the catch of lines 169-172: the run ends, runTest rejects
Abort ==
  /\ runPc' = "idle"
  /\ runResult' = "rejected"
  /\ UNCHANGED <<runType, idx, passes, runSent>>

\* one iteration step of the loops of lines 130-162: the loop condition where
\* one is due, then one publishMessage call
Publish(r, sent) ==
  /\ runPc = "loop"
  /\ AtCheck => LoopCond(TRUE)
  /\ runType \in InOrder => Len(Plan) > 0
  /\ runType = "random" => r \in RandomIndexes
  /\ runType # "random" => r = 0
  /\ sent => Usable(channel)
  /\ randomNumber' = (IF runType = "random" THEN r ELSE randomNumber)
  /\ IF NextIndex(r) >= Len(Plan)
       \* this.testMessages[...] is undefined: reading .exchangeName throws
       THEN /\ Abort
            /\ UNCHANGED <<totalMessagesSent, lastPub>>
       ELSE /\ lastPub' = <<Plan[NextIndex(r) + 1]>>
            /\ IF publishMessage(sent) = "counted"
                 THEN /\ totalMessagesSent' = totalMessagesSent + 1
                      /\ runSent' = runSent + 1
                      /\ idx' = (IF runType \in InOrder THEN (idx + 1) % Len(Plan) ELSE idx)
                      /\ passes' = (IF runType = "extended-duration" /\ idx + 1 = Len(Plan)
                                      THEN passes + 1 ELSE passes)
                      /\ UNCHANGED <<runPc, runType, runResult>>
                 ELSE IF publishMessage(sent) = "thrown"
                   THEN /\ Abort
                        /\ UNCHANGED totalMessagesSent
                   ELSE UNCHANGED <<totalMessagesSent, runPc, runType, idx, passes, runResult, runSent>>
  /\ UNCHANGED <<config, target, readyToTest, testMessages, arrays, snapShots, connection, channel, broker, tasks, calls>>

\* a pass over an empty plan publishes nothing and changes nothing
Spin ==
  /\ runPc = "loop"
  /\ runType \in InOrder
  /\ Len(Plan) = 0
  /\ LoopCond(TRUE)
  /\ UNCHANGED vars

\* Math.floor(a / b) for integers a and b # 0, computed exactly
FloorDiv(a, b) == IF b > 0 THEN a \div b ELSE (-a) \div (-b)

\* The pairs <<total, target>>, for the targets 1, 2, 5, 42, -5 and 1000 and
\* the totals 0..129, for which the double-precision value of
\* (total / target) * 100 lies just below the integer total * 100 / target,
\* so that Math.floor gives one less: (23 / 5) * 100 is 459.99999999999994.
RoundsBelow ==
  {<<23, 5>>, <<41, 5>>, <<46, 5>>, <<51, 5>>, <<82, 5>>, <<87, 5>>, <<92, 5>>,
   <<97, 5>>, <<102, 5>>,
   <<11, -5>>, <<22, -5>>, <<44, -5>>, <<49, -5>>, <<83, -5>>, <<88, -5>>,
   <<93, -5>>, <<98, -5>>}

\* a success rate that is cut off at 100
SuccessRate_clamped(total, tgt) ==
  IF FloorDiv(total * 100, tgt.n) > 100 THEN 100 ELSE FloorDiv(total * 100, tgt.n)

\* Math.floor((this.totalMessagesSent / this.target) * 100) (line 189), in
\* double-precision arithmetic.  The target is a non-zero number in every
\* state of this model.
SuccessRate(total, tgt) ==
  FloorDiv(total * 100, tgt.n) - (IF <<total, tgt.n>> \in RoundsBelow THEN 1 ELSE 0)

\* the record takeSnapShot pushes; its testMessages is the session's array
\* itself, not a copy.  The clock readings (start, end, testDuration) are
\* left out.
Snapshot(type) ==
  [rabbitAddress |-> rabbitAddress,
   exchanges |-> exchanges,
   bindings |-> bindings,
   testMessages |-> testMessages,
   testType |-> type,
   totalMessagesSent |-> totalMessagesSent,
   target |-> target,
   messageSuccessRate |-> SuccessRate(totalMessagesSent, target)]

\* a takeSnapShot that assigns the history instead of pushing onto it
takeSnapShot_overwriting(type) == <<Snapshot(type)>>

takeSnapShot(type) == Append(snapShots, Snapshot(type))

\* closeConnection (lines 89-101) up to its first await: channel.close() is
\* called; on a channel that is not open it rejects and the rest is skipped
CloseStarted ==
  IF chans[channel].state = "open"
    THEN /\ chans' = [chans EXCEPT ![channel].state = "closing"]
         /\ tasks' = Append(tasks, Task("close", "channel", channel, None))
    ELSE UNCHANGED <<chans, tasks>>

\* lines 166-168, reached when the loop condition fails
FinishRun(inTime) ==
  /\ runPc = "loop"
  /\ AtCheck
  /\ ~LoopCond(inTime)
  /\ runType # "extended-duration" => inTime
  /\ randomNumber' = (IF runType \in {"random", "single-binding"} THEN -1 ELSE randomNumber)
  /\ snapShots' = takeSnapShot(runType)
  /\ CloseStarted
  /\ totalMessagesSent' = 0
  /\ runPc' = "idle"
  /\ runResult' = "resolved"
  /\ UNCHANGED <<config, target, readyToTest, testMessages, arrays, connection, channel, conns, connAddr, runType, idx, passes, lastPub, runSent, calls>>

\* channel.close() resolves; closeConnection goes on to this.connection
ChannelClosed(i) ==
  /\ runPc = "idle"
  /\ i \in DOMAIN tasks
  /\ tasks[i].k = "close"
  /\ tasks[i].pc = "channel"
  /\ chans' = [chans EXCEPT ![tasks[i].c].state = "closed"]
  /\ IF connection # 0 /\ conns[connection] = "open"
       THEN /\ conns' = [conns EXCEPT ![connection] = "closing"]
            /\ tasks' = [tasks EXCEPT ![i] = Task("close", "connection", connection, None)]
       ELSE /\ tasks' = RemoveAt(tasks, i)
            /\ UNCHANGED conns
  /\ UNCHANGED <<config, session, connAddr, running, calls>>

\* connection.close() resolves; the connection's channels are gone with it
ConnectionClosed(i) ==
  /\ runPc = "idle"
  /\ i \in DOMAIN tasks
  /\ tasks[i].k = "close"
  /\ tasks[i].pc = "connection"
  /\ conns' = [conns EXCEPT ![tasks[i].c] = "closed"]
  /\ chans' = [j \in DOMAIN chans |->
                 IF chans[j].conn = tasks[i].c THEN [chans[j] EXCEPT !.state = "closed"] ELSE chans[j]]
  /\ tasks' = RemoveAt(tasks, i)
  /\ UNCHANGED <<config, session, connAddr, running, calls>>

Next ==
  \/ \E v \in TargetInputs : updateTarget(v)
  \/ \E u \in UpdateInputs : updateRabbitStressTest(u[1], u[2], u[3], u[4])
  \/ prepTests
  \/ \E type \in TestTypes : runTest(type)
  \/ \E i \in DOMAIN tasks, ok \in BOOLEAN : ConnectSettled(i, ok)
  \/ \E i \in DOMAIN tasks, ok \in BOOLEAN : ChannelSettled(i, ok)
  \/ \E r \in RandomIndexes, sent \in BOOLEAN : Publish(r, sent)
  \/ Spin
  \/ \E inTime \in BOOLEAN : FinishRun(inTime)
  \/ \E i \in DOMAIN tasks : ChannelClosed(i)
  \/ \E i \in DOMAIN tasks : ConnectionClosed(i)

(***************************************************************************)
(* Steps the properties below speak about.                                 *)
(***************************************************************************)
\* runTest leaves the not-ready / connect part and enters its switch
RunStarts == runPc = "idle" /\ runPc' = "loop"
\* runTest records its snapshot and resolves
RunCompletes == runPc = "loop" /\ runResult' = "resolved"
\* runTest rejects out of its publish loop
RunAborts == runPc = "loop" /\ runResult' = "rejected"
\* a prepTests call gets past its await and compiles
PrepCompletes == \E i \in DOMAIN tasks : tasks[i].k = "prep" /\ ChannelSettled(i, TRUE)
\* one publishMessage call that reaches channel.publish
PublishStep == \E r \in RandomIndexes, sent \in BOOLEAN : Publish(r, sent) /\ NextIndex(r) < Len(Plan)
\* amqp.connect resolves for a prepTests call
PrepConnects == \E i \in DOMAIN tasks : tasks[i].k = "prep" /\ ConnectSettled(i, TRUE)
\* the content of the dispatch plan a snapshot refers to
PlanOf(snap) == arrays[snap.testMessages]

(***************************************************************************)
(* C1: a completed count-bounded run on a non-empty plan with a target     *)
(* >= 1 ends with totalMessagesSent > target; at most target + planLength  *)
(* for 'round-robin', exactly target + 1 for 'random' and 'single-binding'.*)
(* (The counter read here is the one the snapshot of the run records.)     *)
(***************************************************************************)
C1_CountBoundedTotal ==
  [][(/\ RunCompletes
      /\ runType \in CountBounded
      /\ Len(Plan) > 0
      /\ IsNumber(target) /\ target.n >= 1)
     => /\ totalMessagesSent > target.n
        /\ runType = "round-robin" => totalMessagesSent <= target.n + Len(Plan)
        /\ runType \in {"random", "single-binding"} => totalMessagesSent = target.n + 1]_vars

(***************************************************************************)
(* C2: prepTests() followed at once by runTest(type), before prepTests     *)
(* has finished, executes the run (the call is not dropped as a no-op).    *)
(***************************************************************************)
C2_BackToBackRuns ==
  [][(/\ tasks = <<Task("prep", "connect", 0, None)>>
      /\ \E type \in TestTypes : runTest(type))
     => runResult' # "noop"]_vars

(***************************************************************************)
(* C3: runTest called while readyToTest is false is a no-op: no publish,   *)
(* no connect, no snapshot, no error, and counter, plan, target and        *)
(* connection state stay as they were.                                     *)
(***************************************************************************)
C3_NotReadyNoOp ==
  [][(readyToTest = FALSE /\ \E type \in TestTypes : runTest(type))
     => /\ runResult' = "noop"
        /\ runPc' = "idle"
        /\ UNCHANGED <<config, session, broker, tasks, lastPub>>]_vars

C3_Witness == runResult = "noop" /\ readyToTest = FALSE /\ calls > 0

(***************************************************************************)
(* C4: updateTarget accepts only positive numeric targets: -5 and "abc"    *)
(* leave the target unchanged, 42 sets it to 42, and nothing else changes. *)
(***************************************************************************)
C4_OnlyPositiveTargets ==
  [][\A v \in TargetInputs :
       updateTarget(v)
       => /\ target' = (IF IsNumber(v) /\ v.n > 0 THEN v ELSE target)
          /\ UNCHANGED <<config, readyToTest, testMessages, arrays, totalMessagesSent, snapShots, connection, channel>>]_vars

(***************************************************************************)
(* C5: at the start of every run totalMessagesSent is 0, also after a      *)
(* completed run and after a run aborted by a publish failure.             *)
(***************************************************************************)
C5_RunStartsAtZero == [][RunStarts => totalMessagesSent' = 0]_vars

(***************************************************************************)
(* C6: the snapshot history is append-only: the sequence of snapshots      *)
(* before any step is a prefix of the one after it, updateRabbitStressTest *)
(* leaves snapShots (and the plans its snapshots refer to) exactly as they *)
(* were, and a snapshot is appended exactly when a run completes, one per  *)
(* completed run.                                                          *)
(***************************************************************************)
C6_HistoryAppendOnly ==
  [][/\ Len(snapShots') >= Len(snapShots)
     /\ SubSeq(snapShots', 1, Len(snapShots)) = snapShots
     /\ Len(snapShots') = Len(snapShots) + (IF RunCompletes THEN 1 ELSE 0)
     /\ (\E u \in UpdateInputs : updateRabbitStressTest(u[1], u[2], u[3], u[4]))
        => /\ snapShots' = snapShots
           /\ \A i \in DOMAIN snapShots : arrays'[snapShots[i].testMessages] = PlanOf(snapShots[i])]_vars

\* an update made on a session that holds the snapshot of a run
C6_Witness == Len(snapShots) >= 1 /\ readyToTest = FALSE /\ Plan = <<>> /\ calls = MaxCalls

(***************************************************************************)
(* C7: a recorded snapshot is never mutated: its fields, and the content   *)
(* of the dispatch plan, exchanges and bindings it holds, are the same in  *)
(* every later state.                                                      *)
(***************************************************************************)
C7_SnapshotsImmutable ==
  [][\A i \in DOMAIN snapShots :
       /\ i \in DOMAIN snapShots'
       /\ snapShots'[i] = snapShots[i]
       /\ arrays'[snapShots'[i].testMessages] = PlanOf(snapShots[i])]_vars

(***************************************************************************)
(* C8: a publish failure aborts the run at once: runTest rejects, the run  *)
(* is over (no further publish), the counter keeps the partial count and   *)
(* no snapshot is appended and no close is started for that run.           *)
(***************************************************************************)
C8_PublishFailureAborts ==
  [][/\ (\E r \in RandomIndexes : Publish(r, FALSE))
        => /\ runResult' = "rejected"
           /\ runPc' = "idle"
           /\ UNCHANGED <<snapShots, totalMessagesSent, tasks, broker>>
     /\ RunAborts => UNCHANGED <<snapShots, tasks, broker>>
     /\ runResult = "rejected" => runPc = "idle"
     /\ (runResult = "rejected" /\ runResult' = "rejected") => UNCHANGED <<lastPub, snapShots>>]_vars

\* a run aborted by its third publish
C8_Witness == runResult = "rejected" /\ totalMessagesSent = 2 /\ runPc = "idle"

(***************************************************************************)
(* C9: when runTest resolves after recording its snapshot, the session's   *)
(* channel and connection are closed.                                      *)
(***************************************************************************)
C9_CompletedRunClosed ==
  [][RunCompletes
     => /\ chans'[channel'].state = "closed"
        /\ conns'[connection'] = "closed"]_vars

(***************************************************************************)
(* C10: prepTests is idempotent: a second prepTests on the same            *)
(* configuration, with no update in between, leaves the dispatch plan as   *)
(* the first one made it.                                                  *)
(***************************************************************************)
C10_PrepIdempotent ==
  [][(readyToTest /\ PrepCompletes) => arrays'[testMessages'] = Plan]_vars

(***************************************************************************)
(* C11: when every binding's source names a supplied exchange, prepTests   *)
(* on a freshly constructed or freshly updated session (not ready, empty   *)
(* plan) produces a plan with exactly one entry per binding, in binding    *)
(* declaration order, each carrying the binding's source, the exchange's   *)
(* type, the binding's routing key and the current message.                *)
(***************************************************************************)
AllResolve == \A i \in DOMAIN bindings : Resolves(bindings[i])

C11_PlanPerBinding ==
  [][(PrepCompletes /\ ~readyToTest /\ Plan = <<>> /\ AllResolve)
     => /\ readyToTest'
        /\ Len(arrays'[testMessages']) = Len(bindings)
        /\ \A i \in DOMAIN bindings :
             /\ arrays'[testMessages'][i].exchangeName = bindings[i].source
             /\ arrays'[testMessages'][i].exchangeType = exchanges[bindings[i].source].type
             /\ arrays'[testMessages'][i].key = bindings[i].routing_key
             /\ arrays'[testMessages'][i].message = message]_vars

\* a two-binding topology compiled into its two entries
C11_Witness ==
  /\ readyToTest
  /\ Len(bindings) = 2
  /\ Len(Plan) = 2
  /\ Plan[1].key = "k1" /\ Plan[2].key = "k2" /\ Plan[2].exchangeType = "direct"

(***************************************************************************)
(* C12: when some binding's source is absent from the exchange set,        *)
(* prepTests rejects the whole compile before any broker interaction: no   *)
(* connection is opened for it, the plan gets no entry from the failed     *)
(* compile, and readyToTest stays false.                                   *)
(***************************************************************************)
C12_BadSourceRejectedFirst ==
  [][~AllResolve
     => /\ PrepConnects => conns' = conns
        /\ PrepCompletes => (arrays'[testMessages'] = Plan /\ readyToTest' = FALSE)]_vars

(***************************************************************************)
(* C13: at most one run is active at a time: while a runTest call is       *)
(* between taking its start time and recording its snapshot, no other      *)
(* call and no continuation of another call takes a step; target and plan  *)
(* stay as they are, the counter changes only by the run's own publishes   *)
(* (and its final reset), and every publish is one of the run's loop.      *)
(***************************************************************************)
C13_OneActiveRun ==
  [][runPc = "loop"
     => /\ calls' = calls
        /\ runType' = runType
        /\ UNCHANGED <<config, target, readyToTest, testMessages, arrays, connection, channel, conns>>
        /\ totalMessagesSent' # totalMessagesSent
           => \/ PublishStep /\ totalMessagesSent' = totalMessagesSent + 1
              \/ RunCompletes /\ totalMessagesSent' = 0
        /\ lastPub' # lastPub => PublishStep
        /\ tasks' # tasks => RunCompletes
        /\ snapShots' # snapShots => RunCompletes]_vars

\* a run in the middle of its loop while the continuation of another call
\* (a second prepTests) waits for the broker
C13_Witness == runPc = "loop" /\ totalMessagesSent > 0 /\ Len(tasks) > 0

(***************************************************************************)
(* C14: in a 'single-binding' run one plan index is chosen once, at run    *)
(* start, and every message published in that run goes to that same plan   *)
(* entry.                                                                  *)
(***************************************************************************)
C14_SingleBindingFixed ==
  [][/\ (RunStarts /\ runType' = "single-binding") => randomNumber' \in RandomIndexes
     /\ (runPc = "loop" /\ runType = "single-binding")
        => /\ arrays'[testMessages'] = Plan
           /\ ~RunCompletes => randomNumber' = randomNumber
           /\ PublishStep => lastPub' = <<Plan[randomNumber + 1]>>]_vars

\* the second entry was drawn and has been published twice
C14_Witness ==
  /\ runType = "single-binding"
  /\ runPc = "loop"
  /\ totalMessagesSent >= 2
  /\ randomNumber = 1
  /\ lastPub = <<Plan[2]>>

(***************************************************************************)
(* C15: in 'round-robin' and 'extended-duration' runs the published        *)
(* entries are the plan in order, repeated: the k-th publish of the run    *)
(* targets plan entry (k - 1) mod planLength.  (A publish that throws ends *)
(* the run, so the k-th publish follows k - 1 publishes that returned.)    *)
(***************************************************************************)
C15_InOrderRepeated ==
  [][(PublishStep /\ runType \in InOrder)
     => lastPub' = <<Plan[(runSent % Len(Plan)) + 1]>>]_vars

\* the fourth publish of a run over a two-entry plan went to the second entry
C15_Witness ==
  /\ runType \in InOrder
  /\ Len(Plan) = 2
  /\ runSent = 4
  /\ lastPub = <<Plan[2]>>

C17_TargetAtLeastOne == IsNumber(target) /\ target.n >= 1

(***************************************************************************)
(* RoundRobinRabbit (lines 434-570), the round-robin-only session class.   *)
(* It differs from RabbitStressTest in that prepTests is synchronous and   *)
(* does not wait for the connection it starts, publishMessage is async and *)
(* is called from a forEach callback whose promise nobody holds, runTest   *)
(* catches without rethrowing and the counter is never reset by a run.     *)
(* A rejected promise that nobody handles is kept as one task of kind      *)
(* "unhandled" until the process deals with it.                            *)
(***************************************************************************)
RoundRobinMessage == "Round Robin"

InitRR ==
  /\ \E excs \in ExchangeInputs, bs \in BindingInputs, tgt \in CtorTargets :
       Constructor("amqp://localhost", excs, bs, RoundRobinMessage, tgt)
  /\ randomNumber = -1
  /\ connection = 0
  /\ channel = 0
  /\ conns = <<>>
  /\ connAddr = <<>>
  /\ chans = <<>>
  /\ tasks = <<>>
  /\ runPc = "idle"
  /\ runType = None
  /\ idx = 0
  /\ passes = 0
  /\ runResult = "none"
  /\ lastPub = <<>>
  /\ runSent = 0
  /\ calls = 0

\* a promise is rejected and no handler is attached to it
Unhandled == Task("unhandled", "rejected", 0, None)
Dropped(ts) == IF \E i \in DOMAIN ts : ts[i] = Unhandled THEN ts ELSE Append(ts, Unhandled)

\* updateTarget (lines 567-569)
RoundRobinRabbit_updateTarget(v) == updateTarget(v)

\* the argument lists updateRoundRobinRabbit is called with
RoundRobinUpdateInputs ==
  { <<"amqp://other", <<ExchangeX>>, <<BindingK1>>>>,
    <<"amqp://localhost", <<ExchangeX, ExchangeY>>, <<BindingK1, BindingK2>>>> }

\* updateRoundRobinRabbit (lines 553-566)
updateRoundRobinRabbit(addr, excs, bs) ==
  /\ CanCall
  /\ calls' = calls + 1
  /\ rabbitAddress' = addr
  /\ exchanges' = ExchangeMap(excs)
  /\ bindings' = bs
  /\ readyToTest' = FALSE
  /\ FreshArray
  /\ totalMessagesSent' = 0
  /\ message' = RoundRobinMessage
  /\ UNCHANGED <<target, snapShots, randomNumber, connection, channel, broker, tasks, running>>

\* prepTests (lines 497-509): connectToRabbitMQ is started and left to run
\* on its own, the plan is compiled in the same synchronous stretch
RoundRobinRabbit_prepTests ==
  /\ CanCall
  /\ calls' = calls + 1
  /\ tasks' = Append(tasks, Task("connect", "connect", 0, None))
  /\ Compile
  /\ UNCHANGED <<config, target, testMessages, totalMessagesSent, snapShots, randomNumber, connection, channel, broker, running>>

\* runTest (lines 512-531) up to its first await or to the while loop
RoundRobinRabbit_runTest ==
  /\ CanCall
  /\ calls' = calls + 1
  /\ IF NotReady
       THEN /\ runResult' = "noop"
            /\ UNCHANGED <<config, session, broker, tasks, runPc, runType, idx, passes, lastPub, runSent>>
       ELSE IF NeedsConnect
         THEN /\ tasks' = Append(tasks, Task("run", "connect", 0, "round-robin"))
              /\ runResult' = "pending"
              /\ UNCHANGED <<config, session, broker, runPc, runType, idx, passes, lastPub, runSent>>
         ELSE /\ StartRun("round-robin")
              /\ UNCHANGED <<config, target, readyToTest, testMessages, arrays, totalMessagesSent, snapShots, connection, channel, broker, tasks, lastPub>>

\* connectToRabbitMQ (lines 452-461): amqp.connect settles.  A failure is
\* rethrown: runTest's catch (lines 527-529) logs it and runTest resolves;
\* the promise of the connect prepTests started is held by nobody.
RoundRobinRabbit_ConnectSettled(i, ok) ==
  /\ runPc = "idle"
  /\ i \in DOMAIN tasks
  /\ tasks[i].pc = "connect"
  /\ IF ok
       THEN /\ conns' = Append(conns, "open")
            /\ connAddr' = Append(connAddr, tasks[i].addr)
            /\ connection' = Len(conns) + 1
            /\ tasks' = [tasks EXCEPT ![i] = Task(@.k, "channel", Len(conns) + 1, @.type)]
            /\ runResult' = runResult
       ELSE /\ tasks' = (IF tasks[i].k = "run" THEN RemoveAt(tasks, i) ELSE Dropped(RemoveAt(tasks, i)))
            /\ runResult' = (IF tasks[i].k = "run" THEN "resolved" ELSE runResult)
            /\ UNCHANGED <<conns, connAddr, connection>>
  /\ UNCHANGED <<config, target, readyToTest, testMessages, arrays, totalMessagesSent, snapShots, randomNumber, channel, chans, runPc, runType, idx, passes, lastPub, runSent, calls>>

\* connection.createChannel settles; a runTest that waited goes on to its loop
RoundRobinRabbit_ChannelSettled(i, ok) ==
  /\ runPc = "idle"
  /\ i \in DOMAIN tasks
  /\ tasks[i].pc = "channel"
  /\ tasks[i].k \in {"connect", "run"}
  /\ ok => conns[tasks[i].c] = "open"
  /\ IF ok
       THEN /\ chans' = Append(chans, [conn |-> tasks[i].c, state |-> "open"])
            /\ channel' = Len(chans) + 1
            /\ tasks' = RemoveAt(tasks, i)
            /\ IF tasks[i].k = "run"
                 THEN StartRun("round-robin")
                 ELSE UNCHANGED <<randomNumber, runPc, runType, idx, passes, runResult, runSent>>
       ELSE /\ tasks' = (IF tasks[i].k = "run" THEN RemoveAt(tasks, i) ELSE Dropped(RemoveAt(tasks, i)))
            /\ runResult' = (IF tasks[i].k = "run" THEN "resolved" ELSE runResult)
            /\ UNCHANGED <<chans, channel, randomNumber, runPc, runType, idx, passes, runSent>>
  /\ UNCHANGED <<config, target, readyToTest, testMessages, arrays, totalMessagesSent, snapShots, connection, conns, connAddr, lastPub, calls>>

\* one call of the forEach callback of lines 520-522, after the while
\* condition where a pass begins.  publishMessage (lines 465-479) runs up
\* to its end inside the call: the counter is incremented, or the error is
\* rethrown into the callback's promise, which forEach drops; the forEach
\* goes on either way.
RoundRobinRabbit_Publish(sent) ==
  /\ runPc = "loop"
  /\ AtCheck => LessEq(totalMessagesSent, target)
  /\ Len(Plan) > 0
  /\ sent => Usable(channel)
  /\ lastPub' = <<Plan[idx + 1]>>
  /\ idx' = (idx + 1) % Len(Plan)
  /\ IF publishMessage(sent) = "counted"
       THEN /\ totalMessagesSent' = totalMessagesSent + 1
            /\ runSent' = runSent + 1
            /\ tasks' = tasks
       ELSE /\ tasks' = Dropped(tasks)
            /\ UNCHANGED <<totalMessagesSent, runSent>>
  /\ UNCHANGED <<config, target, readyToTest, testMessages, arrays, snapShots, randomNumber, connection, channel, broker, runPc, runType, passes, runResult, calls>>

\* a forEach over an empty plan: the while loop goes round for ever
RoundRobinRabbit_Spin ==
  /\ runPc = "loop"
  /\ Len(Plan) = 0
  /\ LessEq(totalMessagesSent, target)
  /\ UNCHANGED vars

\* the record takeSnapShot (lines 534-550) pushes, clock readings left out
RoundRobinRabbit_Snapshot ==
  [rabbitAddress |-> rabbitAddress,
   exchanges |-> exchanges,
   bindings |-> bindings,
   testMessages |-> testMessages,
   totalMessagesSent |-> totalMessagesSent,
   target |-> target,
   messageSuccessRate |-> SuccessRate(totalMessagesSent, target)]

\* closeConnection (lines 482-494) up to its first await; the promise of a
\* closeConnection that throws is held by nobody
RoundRobinRabbit_CloseStarted ==
  IF chans[channel].state = "open"
    THEN /\ chans' = [chans EXCEPT ![channel].state = "closing"]
         /\ tasks' = Append(tasks, Task("close", "channel", channel, None))
    ELSE /\ tasks' = Dropped(tasks)
         /\ chans' = chans

\* lines 524-526, reached when the while condition fails
RoundRobinRabbit_FinishRun ==
  /\ runPc = "loop"
  /\ AtCheck
  /\ ~LessEq(totalMessagesSent, target)
  /\ snapShots' = Append(snapShots, RoundRobinRabbit_Snapshot)
  /\ RoundRobinRabbit_CloseStarted
  /\ runPc' = "idle"
  /\ runResult' = "resolved"
  /\ UNCHANGED <<config, target, readyToTest, testMessages, arrays, totalMessagesSent, randomNumber, connection, channel, conns, connAddr, runType, idx, passes, lastPub, runSent, calls>>

\* closeConnection after channel.close() and after connection.close()
RoundRobinRabbit_ChannelClosed(i) == ChannelClosed(i)
RoundRobinRabbit_ConnectionClosed(i) == ConnectionClosed(i)

\* the process deals with a rejection nobody handled: it prints a warning,
\* or (the default from Node.js 15 on) it exits
UnhandledRejection(i, exits) ==
  /\ runPc = "idle"
  /\ i \in DOMAIN tasks
  /\ tasks[i] = Unhandled
  /\ tasks' = RemoveAt(tasks, i)
  /\ runPc' = (IF exits THEN "exited" ELSE runPc)
  /\ UNCHANGED <<config, session, broker, runType, idx, passes, runResult, lastPub, runSent, calls>>

NextRR ==
  \/ \E v \in TargetInputs : RoundRobinRabbit_updateTarget(v)
  \/ \E u \in RoundRobinUpdateInputs : updateRoundRobinRabbit(u[1], u[2], u[3])
  \/ RoundRobinRabbit_prepTests
  \/ RoundRobinRabbit_runTest
  \/ \E i \in DOMAIN tasks, ok \in BOOLEAN : RoundRobinRabbit_ConnectSettled(i, ok)
  \/ \E i \in DOMAIN tasks, ok \in BOOLEAN : RoundRobinRabbit_ChannelSettled(i, ok)
  \/ \E sent \in BOOLEAN : RoundRobinRabbit_Publish(sent)
  \/ RoundRobinRabbit_Spin
  \/ RoundRobinRabbit_FinishRun
  \/ \E i \in DOMAIN tasks : RoundRobinRabbit_ChannelClosed(i)
  \/ \E i \in DOMAIN tasks : RoundRobinRabbit_ConnectionClosed(i)
  \/ \E i \in DOMAIN tasks, exits \in BOOLEAN : UnhandledRejection(i, exits)

(***************************************************************************)
(* C18: in RoundRobinRabbit (and RandomRabbit) a publish failure during    *)
(* runTest aborts the run and propagates to the caller: the publish loop   *)
(* stops, runTest rejects with the error, and no snapshot is recorded.     *)
(***************************************************************************)
C18_FailureAbortsRun ==
  [][RoundRobinRabbit_Publish(FALSE)
     => /\ runPc' = "idle"
        /\ runResult' = "rejected"]_vars

(***************************************************************************)
(* C19: every publish issued by runTest goes to a channel that is open at  *)
(* that moment, also in a second runTest on a still-ready session after a  *)
(* completed run.                                                          *)
(***************************************************************************)
C19_PublishOnOpenChannel == [][PublishStep => Usable(channel)]_vars

(***************************************************************************)
(* C20: updateRabbitStressTest is a partial update: each of rabbitAddress, *)
(* exchanges, bindings and message that is omitted or falsy keeps its      *)
(* prior value and each provided one replaces it; afterwards readyToTest   *)
(* is false, the plan is empty and totalMessagesSent is 0, while target    *)
(* and the connection are untouched.                                       *)
(***************************************************************************)
C20_PartialUpdate ==
  [][\A u \in UpdateInputs :
       updateRabbitStressTest(u[1], u[2], u[3], u[4])
       => /\ rabbitAddress' = (IF u[1].given THEN u[1].v ELSE rabbitAddress)
          /\ exchanges' = (IF u[2].given THEN ExchangeMap(u[2].v) ELSE exchanges)
          /\ bindings' = (IF u[3].given THEN u[3].v ELSE bindings)
          /\ message' = (IF u[4].given THEN u[4].v ELSE message)
          /\ readyToTest' = FALSE
          /\ arrays'[testMessages'] = <<>>
          /\ totalMessagesSent' = 0
          /\ UNCHANGED <<target, connection, channel, conns, chans>>]_vars

\* only the address was given, on a session that was ready, connected and
\* had an aborted run's count: exchanges, bindings and message are the
\* constructor's
C20_Witness ==
  /\ rabbitAddress = "amqp://other"
  /\ message = DefaultMessage
  /\ Len(bindings) = 2
  /\ DOMAIN exchanges = {"X", "Y"}
  /\ channel # 0
  /\ runResult = "rejected"
  /\ readyToTest = FALSE
  /\ Plan = <<>>
  /\ totalMessagesSent = 0

(***************************************************************************)
(* C21: within a run totalMessagesSent equals the number of publish calls  *)
(* that returned without throwing since the run started: it grows by one   *)
(* per successful publish, is not incremented by a failed one and does not *)
(* decrease before the snapshot is taken.                                  *)
(***************************************************************************)
C21_CounterCountsPublishes ==
  [][/\ runPc = "loop" => totalMessagesSent = runSent
     /\ (runPc = "loop" /\ ~RunCompletes)
        => /\ totalMessagesSent' >= totalMessagesSent
           /\ totalMessagesSent' - totalMessagesSent = runSent' - runSent]_vars

(***************************************************************************)
(* C22: when connecting or opening the channel fails inside prepTests, the *)
(* error reaches the caller of prepTests (it is not left as a rejection    *)
(* nobody handles), readyToTest stays false and the plan stays empty, so a *)
(* following runTest is a no-op; stated here for RoundRobinRabbit, whose   *)
(* prepTests does not wait for the connection.                             *)
(***************************************************************************)
PrepConnectFails ==
  \E i \in DOMAIN tasks :
    /\ tasks[i].k = "connect"
    /\ \/ RoundRobinRabbit_ConnectSettled(i, FALSE)
       \/ RoundRobinRabbit_ChannelSettled(i, FALSE)

C22_PrepFailureReachesCaller ==
  [][PrepConnectFails
     => /\ readyToTest' = FALSE
        /\ arrays'[testMessages'] = <<>>
        /\ \A j \in DOMAIN tasks' : tasks'[j] # Unhandled]_vars

(***************************************************************************)
(* C23: an 'extended-duration' run is ended by the clock alone, at a check *)
(* made before a full pass, so the totalMessagesSent it records is a       *)
(* multiple of planLength, and is 0, with a snapshot still recorded, when  *)
(* the duration has already elapsed at the first check.                    *)
(***************************************************************************)
C23_ExtendedDurationTotal ==
  [][(RunCompletes /\ runType = "extended-duration")
     => /\ Len(snapShots') = Len(snapShots) + 1
        /\ Len(Plan) > 0 => totalMessagesSent % Len(Plan) = 0
        /\ runSent = 0 => totalMessagesSent = 0]_vars

(***************************************************************************)
(* C24: the close started at the end of a run closes only the channel and  *)
(* connection that run used: when prepTests installs a new connection      *)
(* while the close is in progress, the close does not touch the new        *)
(* connection and does not leave the old one open.                         *)
(***************************************************************************)
C24_CloseOwnConnection ==
  [][\A i \in DOMAIN tasks :
       ChannelClosed(i)
       => /\ \A c \in DOMAIN conns : conns'[c] # conns[c] => c = chans[tasks[i].c].conn
          /\ conns'[chans[tasks[i].c].conn] # "open"]_vars

(***************************************************************************)
(* C25: a session never holds more than one open broker connection, also   *)
(* when prepTests is called twice or after updateRabbitStressTest.         *)
(***************************************************************************)
OpenConnections == {c \in DOMAIN conns : conns[c] = "open"}

C25_OneOpenConnection == Cardinality(OpenConnections) <= 1

(***************************************************************************)
(* C26: whenever readyToTest is true, the session's connection was made to *)
(* the current rabbitAddress (prepTests ran after the latest               *)
(* updateRabbitStressTest), also when the update is made while an earlier  *)
(* prepTests is suspended waiting for the connection.                      *)
(***************************************************************************)
C26_ReadyMeansCurrentAddress ==
  readyToTest => (connection # 0 /\ connAddr[connection] = rabbitAddress)

(***************************************************************************)
(* C27: on a ready session whose plan is empty, a run with a count-bounded *)
(* strategy still terminates: from every state of its loop a step is       *)
(* possible that ends the run, by recording a snapshot or by rejecting.    *)
(***************************************************************************)
RunEnds == runPc = "loop" /\ runPc' = "idle" /\ runResult' \in {"resolved", "rejected"}

C27_EmptyPlanRunEnds ==
  (runPc = "loop" /\ runType \in CountBounded /\ Len(Plan) = 0)
  => ENABLED (Next /\ RunEnds)

(***************************************************************************)
(* C28: runTest on a ready session with a type that names no strategy      *)
(* publishes nothing and raises no error, yet appends a snapshot with      *)
(* testType the given type, totalMessagesSent 0 and messageSuccessRate 0,  *)
(* and starts closing the connection.                                      *)
(***************************************************************************)
C28_UnknownTypeSnapshot ==
  [][/\ (runPc = "loop" /\ runType = "other") => (RunCompletes /\ lastPub' = lastPub)
     /\ (RunCompletes /\ runType = "other")
        => /\ Len(snapShots') = Len(snapShots) + 1
           /\ snapShots'[Len(snapShots')].testType = "other"
           /\ snapShots'[Len(snapShots')].totalMessagesSent = 0
           /\ snapShots'[Len(snapShots')].messageSuccessRate = 0
           /\ chans[channel].state = "open" => chans'[channel].state = "closing"]_vars

Spec == Init /\ [][Next]_vars
SpecRR == InitRR /\ [][NextRR]_vars
====
